---- MODULE Spec2Model ----
(***************************************************************************)
(* A model of the yimu-frontend client: the page navigation of             *)
(* AnnualSummary (currentPage, sessionStorage) and the data loading of     *)
(* FinancialOverview (fetchData, fetchFinancialData, the render guards),   *)
(* together with the heat-map cell ratio computation.                      *)
(*                                                                         *)
(* JavaScript values that may be null/undefined are tagged records:        *)
(* Null, Undefined, Num(n) for a number, Str(s) for a string.              *)
(***************************************************************************)
EXTENDS Integers, Sequences, FiniteSets, Bags, TLC

VARIABLES
    storage,        \* sessionStorage: a set of <<key, value>> pairs, value a sequence of characters
    currentPage,    \* AnnualSummary: useState currentPage
    selectedYear,   \* the selectedYear prop FinancialOverview is rendered with
    financialData,  \* FinancialOverview: useState financialData
    dailyData,      \* FinancialOverview: useState dailyData
    loading,        \* FinancialOverview: useState loading
    error,          \* FinancialOverview: useState error
    loads,          \* the invocations of fetchData / fetchFinancialData still awaiting: a bag
    issued,         \* the HTTP requests issued by the last step
    lastEvent,      \* what the last step was (observation of the step taken)
    cell,           \* a heat-map cell: the day's record and what the cell computed from it
    grid            \* the heat-map grid: the year it is rendered for and its cells so far

vars == <<storage, currentPage, selectedYear, financialData, dailyData,
          loading, error, loads, issued, lastEvent, cell, grid>>

navVars == <<storage, currentPage>>
foVars == <<financialData, dailyData, loading, error, loads>>

-----------------------------------------------------------------------------
(* Bounds of the model *)

\* invocations of fetchData / fetchFinancialData awaiting at the same time
MaxInFlight == 2
\* the largest absolute income or expense amount of a daily record
MaxAmount == 4
\* the years the heat-map grid is rendered for
GridFirstYear == 2000
GridLastYear == 2028

-----------------------------------------------------------------------------
(* JavaScript values *)

Null == [null |-> TRUE]
Undefined == [undefined |-> TRUE]
NaN == [nan |-> TRUE]
Num(n) == [num |-> n]
Str(s) == [str |-> s]

\* truthiness of a value of type string | number | null | undefined | object
Truthy(v) ==
    /\ v # Null
    /\ v # Undefined
    /\ v # NaN
    /\ v # Str("")
    /\ v # Num(0)

\* `${v}` for a number or undefined
TemplateString(v) == IF v = Undefined THEN "undefined" ELSE ToString(v.num)

-----------------------------------------------------------------------------
(* AnnualSummary: page state kept in sessionStorage *)

PageKey == "yimu-current-page"

pages == <<"welcome", "financial-overview">>

Digits == <<"0", "1", "2", "3", "4", "5", "6", "7", "8", "9">>

\* Number.prototype.toString() of a non-negative integer: its decimal digits
RECURSIVE NumberToString(_)
NumberToString(n) ==
    IF n < 10 THEN <<Digits[n + 1]>>
    ELSE NumberToString(n \div 10) \o <<Digits[(n % 10) + 1]>>

DigitValue(c) == CHOOSE d \in 0..9 : Digits[d + 1] = c

IsDigit(c) == \E d \in 0..9 : Digits[d + 1] = c

\* the longest prefix of s made of decimal digits
RECURSIVE DigitPrefix(_)
DigitPrefix(s) ==
    IF s = <<>> \/ ~IsDigit(Head(s)) THEN <<>>
    ELSE <<Head(s)>> \o DigitPrefix(Tail(s))

RECURSIVE DigitsValue(_, _)
DigitsValue(s, acc) ==
    IF s = <<>> THEN acc
    ELSE DigitsValue(Tail(s), acc * 10 + DigitValue(Head(s)))

\* parseInt(s, 10) of an unsigned string: the value of its digit prefix, NaN without one
ParseInt(s) ==
    IF DigitPrefix(s) = <<>> THEN NaN ELSE DigitsValue(DigitPrefix(s), 0)

\* sessionStorage.getItem(key): the stored string, or null
GetItem(st, key) ==
    IF \E p \in st : p[1] = key
    THEN Str((CHOOSE p \in st : p[1] = key)[2])
    ELSE Null

\* sessionStorage.setItem(key, value)
SetItem(st, key, value) ==
    {p \in st : p[1] # key} \cup {<<key, value>>}

\* the useState initialiser of currentPage
InitialPage(st) ==
    LET savedPage == GetItem(st, PageKey)
    IN IF savedPage # Null /\ savedPage.str # <<>> THEN ParseInt(savedPage.str) ELSE 0

LastPage == Len(pages) - 1

\* handleWheel without the last-page guard of its first branch
WheelTargetNoLastPageGuard(page, deltaY) ==
    IF deltaY > 0 THEN page + 1
    ELSE IF deltaY < 0 /\ page > 0 THEN page - 1
    ELSE page

\* handleWheel with the two directions exchanged
WheelTargetInverted(page, deltaY) ==
    IF deltaY < 0 /\ page < Len(pages) - 1 THEN page + 1
    ELSE IF deltaY > 0 /\ page > 0 THEN page - 1
    ELSE page

\* the page handleWheel moves to, or the current page when it does nothing
WheelTarget(page, deltaY) ==
    IF deltaY > 0 /\ page < Len(pages) - 1 THEN page + 1
    ELSE IF deltaY < 0 /\ page > 0 THEN page - 1
    ELSE page

\* the page handleKeyDown moves to, or the current page when it does nothing
KeyTarget(page, key) ==
    IF key = "ArrowDown" /\ page < Len(pages) - 1 THEN page + 1
    ELSE IF key = "ArrowUp" /\ page > 0 THEN page - 1
    ELSE page

\* a handler that stores the page under a key the initialiser does not read
StorePageOtherKey(st, newPage) == SetItem(st, "current-page", NumberToString(newPage))

\* a handler that sets the page and leaves sessionStorage alone
StorePageNotWritten(st, newPage) == st

\* setCurrentPage(newPage); sessionStorage.setItem(..., newPage.toString())
StorePage(st, newPage) == SetItem(st, PageKey, NumberToString(newPage))

\* renderCurrentPage: is FinancialOverview the page rendered (default: WelcomePage)
ShowsOverview(page) ==
    /\ page + 1 \in DOMAIN pages
    /\ pages[page + 1] = "financial-overview"

-----------------------------------------------------------------------------
(* FinancialOverview: requests, responses and thrown values *)

Endpoints == {"financial-overview", "daily-data"}

\* `http://localhost:8000/api/<endpoint>?year=${year}`
Url(endpoint, yearText) ==
    "http://localhost:8000/api/" \o endpoint \o "?year=" \o yearText

\* fetch(url) with no init: a GET
Request(endpoint, yearText) == [method |-> "GET", url |-> Url(endpoint, yearText)]

\* new Date().getFullYear()
CurrentFullYear == 2025

\* the years the parent may select in the component harness
Years == {CurrentFullYear - 2, CurrentFullYear - 1}

\* HTTP statuses the backend answers with
Statuses == {200, 500}

\* Response.ok
Ok(status) == status \in 200..299

\* the parsed body of an OK response: the backend's record for that endpoint and year
Payload(endpoint, yearText) == [api |-> endpoint, year |-> yearText]

Error(message) == [isError |-> TRUE, message |-> message]

\* what fetch() rejects with: a TypeError whose message the runtime chooses
FetchErrors == {Error("Failed to fetch"), Error("")}

\* what Response.json() rejects with: a SyntaxError whose message the runtime chooses
JsonErrors == {Error("Unexpected end of JSON input"), Error("")}

\* err instanceof Error ? err.message : fallback
ErrMessage(err, fallback) == IF err.isError THEN err.message ELSE fallback

\* fetchData's message for a thrown value that is no Error (the source's text is
\* Chinese for "fetching the data failed")
FetchDataFallback == "fetching the data failed"

\* `HTTP error! financial: ${financialResponse.status}, daily: ${dailyResponse.status}`
HttpErrorMessage(financialStatus, dailyStatus) ==
    "HTTP error! financial: " \o ToString(financialStatus)
        \o ", daily: " \o ToString(dailyStatus)

-----------------------------------------------------------------------------
(* FinancialOverview: the awaiting invocations *)

\* an invocation of fetchData for selectedYear, both requests issued, none answered
NewFetchData(year) ==
    [fn |-> "fetchData", year |-> TemplateString(year),
     resp |-> {}, parsed |-> {}]

\* const year = targetYear || new Date().getFullYear() - 1
RetryYear(targetYear) ==
    IF Truthy(targetYear) THEN targetYear ELSE Num(CurrentFullYear - 1)

\* an invocation of fetchFinancialData(targetYear), its request issued, not answered
NewFetchFinancialData(targetYear) ==
    [fn |-> "fetchFinancialData", year |-> TemplateString(RetryYear(targetYear)),
     resp |-> {}, parsed |-> {}]

\* the endpoints an invocation requests
Requested(l) ==
    IF l.fn = "fetchData" THEN Endpoints ELSE {"financial-overview"}

Responded(l) == {p[1] : p \in l.resp}

StatusOf(l, endpoint) == (CHOOSE p \in l.resp : p[1] = endpoint)[2]

\* the invocation awaits its fetch() promises
AwaitsFetch(l) == Responded(l) # Requested(l)

\* the invocation awaits its json() promises
AwaitsJson(l) == Responded(l) = Requested(l) /\ l.parsed # Requested(l)

\* the awaiting invocations with one more, with one settled, with one advanced
Started(lds, l) == lds (+) SetToBag({l})
Settled(lds, l) == lds (-) SetToBag({l})
Advanced(lds, l, l2) == Settled(lds, l) (+) SetToBag({l2})

InFlight == BagCardinality(loads)

-----------------------------------------------------------------------------
(* FinancialOverview: rendering *)

Mounted == ShowsOverview(currentPage)

\* the render guards: which of the four views is returned
ViewOf(ld, er, fd) ==
    IF ld THEN "spinner"
    ELSE IF Truthy(er) THEN "error"
    ELSE IF fd = Null THEN "no-data"
    ELSE "overview"

View == ViewOf(loading, error, financialData)

\* an effect without a dependency array: it runs after every render
EffectRunsEveryRender(prevDeps, nextDeps) == TRUE

\* useEffect(..., [selectedYear]): the effect runs on mount (no previous deps) and
\* whenever a dependency differs from the previous render's
EffectRuns(prevDeps, nextDeps) == prevDeps # nextDeps

NoDeps == <<>>

\* the observation of a step
Event(kind) ==
    [kind |-> kind,                 \* the handler or continuation that ran
     deltaY |-> 0,                  \* a wheel event's deltaY
     key |-> "",                    \* a keydown event's key
     moved |-> FALSE,               \* the handler set another page
     cleared |-> FALSE,             \* the step replaced an error by null
     started |-> 0,                 \* invocations of fetchData the step started
     failed |-> {}]                 \* the endpoints whose response failed a settled load

\* A render of the mounted FinancialOverview with the given state, followed by its
\* effect: when the dependencies changed fetchData starts (setLoading(true) and both
\* fetch() calls, before the first await).
Render(prevDeps, year, fd, dd, ld, er, lds, req, ev) ==
    LET run == EffectRuns(prevDeps, <<year>>)
    IN /\ financialData' = fd
       /\ dailyData' = dd
       /\ error' = er
       /\ loading' = (IF run THEN TRUE ELSE ld)
       /\ loads' = (IF run THEN Started(lds, NewFetchData(year)) ELSE lds)
       /\ issued' = req \cup (IF run
                               THEN {Request(e, TemplateString(year)) : e \in Endpoints}
                               ELSE {})
       /\ lastEvent' = [ev EXCEPT !.started = IF run THEN 1 ELSE 0]
       /\ UNCHANGED <<cell, grid>>

\* key={currentPage} changed (or the document was loaded): the page shown is mounted
\* anew. A FinancialOverview that goes away takes its state with it; what its awaiting
\* invocations set afterwards reaches no component.
Remount(page, year, ev) ==
    IF ShowsOverview(page)
    THEN Render(NoDeps, year, Null, Null, TRUE, Null, EmptyBag, {}, ev)
    ELSE /\ financialData' = Null
         /\ dailyData' = Null
         /\ loading' = TRUE
         /\ error' = Null
         /\ loads' = EmptyBag
         /\ issued' = {}
         /\ lastEvent' = ev
         /\ UNCHANGED <<cell, grid>>

-----------------------------------------------------------------------------
(* Initial state: a new tab, nothing stored, the welcome page shown *)

\* no heat-map cell computed
NoCell == [rendered |-> FALSE]

\* no heat-map grid rendered
NoGrid == [rendered |-> FALSE]

InitState(year, c, g) ==
    /\ cell = c
    /\ grid = g
    /\ storage = {}
    /\ currentPage = InitialPage({})
    /\ selectedYear = year
    /\ financialData = Null
    /\ dailyData = Null
    /\ loading = TRUE
    /\ error = Null
    /\ loads = EmptyBag
    /\ issued = {}
    /\ lastEvent = Event("init")

InitWith(year, c) == InitState(year, c, NoGrid)

\* renderCurrentPage renders <FinancialOverview /> with no props: selectedYear is undefined
Init == InitWith(Undefined, NoCell)

-----------------------------------------------------------------------------
(* AnnualSummary: navigation *)

\* a handler that found a page to move to: setCurrentPage, setItem, and the re-render
GoTo(newPage, ev) ==
    IF newPage # currentPage
    THEN /\ currentPage' = newPage
         /\ storage' = StorePage(storage, newPage)
         /\ Remount(newPage, selectedYear, [ev EXCEPT !.moved = TRUE])
    ELSE /\ UNCHANGED <<navVars, foVars>>
         /\ issued' = {}
         /\ lastEvent' = ev
         /\ UNCHANGED <<cell, grid>>

WheelDeltas == {-100, 0, 100}

Keys == {"ArrowDown", "ArrowUp", "ArrowLeft", "ArrowRight"}

\* onWheel={handleWheel}
Wheel(deltaY) ==
    /\ GoTo(WheelTarget(currentPage, deltaY),
            [Event("wheel") EXCEPT !.deltaY = deltaY])
    /\ UNCHANGED selectedYear

\* window keydown listener
KeyDown(key) ==
    /\ GoTo(KeyTarget(currentPage, key), [Event("keydown") EXCEPT !.key = key])
    /\ UNCHANGED selectedYear

\* the document is reloaded in the same tab: sessionStorage survives, nothing else does
Reload ==
    /\ currentPage' = InitialPage(storage)
    /\ Remount(InitialPage(storage), Undefined, Event("reload"))
    /\ selectedYear' = Undefined
    /\ UNCHANGED storage

-----------------------------------------------------------------------------
(* FinancialOverview: fetchData, the effect's load of both endpoints *)

\* a continuation whose finally block is missing: loading stays as it was
SettleWithoutFinally(fd, dd, ld, er, lds, ev) ==
    /\ Render(<<selectedYear>>, selectedYear, fd, dd, loading, er, lds, {}, ev)
    /\ UNCHANGED <<navVars, selectedYear>>

\* the state after a render of the mounted component that changed no prop
Settle(fd, dd, ld, er, lds, ev) ==
    /\ Render(<<selectedYear>>, selectedYear, fd, dd, ld, er, lds, {}, ev)
    /\ UNCHANGED <<navVars, selectedYear>>

\* a step of an invocation that sets no state: nothing is rendered
Continue(lds, ev) ==
    /\ loads' = lds
    /\ issued' = {}
    /\ lastEvent' = ev
    /\ UNCHANGED <<cell, grid>>
    /\ UNCHANGED <<navVars, selectedYear, financialData, dailyData, loading, error>>

\* a catch that keeps what was parsed before the failure
DataAfterFailurePartial(l, fd, dd) ==
    <<IF "financial-overview" \in l.parsed THEN Payload("financial-overview", l.year) ELSE fd,
      IF "daily-data" \in l.parsed THEN Payload("daily-data", l.year) ELSE dd>>

\* catch (err) { setError(...) } finally { setLoading(false) }: the data is not touched
DataAfterFailure(l, fd, dd) == <<fd, dd>>

\* fetchData's catch and finally
FetchDataFails(l, err, failed) ==
    LET data == DataAfterFailure(l, financialData, dailyData)
    IN Settle(data[1], data[2], FALSE,
              Str(ErrMessage(err, FetchDataFallback)),
              Settled(loads, l),
              [Event("loadFailed") EXCEPT !.failed = failed])

\* a fetchData that sets each payload as soon as its own body is parsed
DataAfterJsonEager(l, parsed, fd, dd) ==
    <<IF "financial-overview" \in parsed THEN Payload("financial-overview", l.year) ELSE fd,
      IF "daily-data" \in parsed THEN Payload("daily-data", l.year) ELSE dd>>

\* what fetchData has set of financialData, dailyData once the bodies in `parsed` are
\* parsed: both payloads after both, nothing before
DataAfterJson(l, parsed, fd, dd) ==
    IF parsed = Endpoints
    THEN <<Payload("financial-overview", l.year), Payload("daily-data", l.year)>>
    ELSE <<fd, dd>>

\* a success path that leaves the error as it was
ErrorAfterJsonKept(er) == er

\* setError(null) of fetchData's success path
ErrorAfterJson(er) == Null

\* one of the two fetch() promises resolves with a response of the given status; once
\* both have, Promise.all resolves: a non-OK status throws, otherwise both json() start
FetchDataResponse(l, endpoint, status) ==
    /\ Mounted
    /\ BagIn(l, loads)
    /\ l.fn = "fetchData"
    /\ AwaitsFetch(l)
    /\ endpoint \notin Responded(l)
    /\ LET l2 == [l EXCEPT !.resp = @ \cup {<<endpoint, status>>}]
           bad == {e \in Endpoints : ~Ok(StatusOf(l2, e))}
       IN IF AwaitsFetch(l2) \/ bad = {}
          THEN Continue(Advanced(loads, l, l2), Event("await"))
          ELSE FetchDataFails(l,
                   Error(HttpErrorMessage(StatusOf(l2, "financial-overview"),
                                          StatusOf(l2, "daily-data"))),
                   bad)

\* one of the two fetch() promises rejects: Promise.all rejects at once
FetchDataReject(l, endpoint, err) ==
    /\ Mounted
    /\ BagIn(l, loads)
    /\ l.fn = "fetchData"
    /\ AwaitsFetch(l)
    /\ endpoint \notin Responded(l)
    /\ FetchDataFails(l, err, {endpoint})

\* one of the two json() promises resolves; once both have, the payloads are set,
\* the error is cleared and loading ends
FetchDataJson(l, endpoint) ==
    /\ Mounted
    /\ BagIn(l, loads)
    /\ l.fn = "fetchData"
    /\ AwaitsJson(l)
    /\ endpoint \notin l.parsed
    /\ LET l2 == [l EXCEPT !.parsed = @ \cup {endpoint}]
           data == DataAfterJson(l, l2.parsed, financialData, dailyData)
       IN IF l2.parsed = Endpoints
          THEN Settle(data[1], data[2], FALSE, ErrorAfterJson(error), Settled(loads, l),
                      [Event("loadOk") EXCEPT !.cleared = error # Null])
          ELSE IF data = <<financialData, dailyData>>
          THEN Continue(Advanced(loads, l, l2), Event("await"))
          ELSE Settle(data[1], data[2], loading, error, Advanced(loads, l, l2),
                      Event("await"))

\* one of the two json() promises rejects
FetchDataJsonReject(l, endpoint, err) ==
    /\ Mounted
    /\ BagIn(l, loads)
    /\ l.fn = "fetchData"
    /\ AwaitsJson(l)
    /\ endpoint \notin l.parsed
    /\ FetchDataFails(l, err, {endpoint})

-----------------------------------------------------------------------------
(* FinancialOverview: fetchFinancialData, the retry button's load *)

\* onClick={() => fetchFinancialData(selectedYear)} of the error view:
\* setLoading(true) and the fetch() of the financial overview
RetryClick ==
    /\ Mounted
    /\ View = "error"
    /\ InFlight < MaxInFlight
    /\ LET l == NewFetchFinancialData(selectedYear)
       IN Render(<<selectedYear>>, selectedYear, financialData, dailyData, TRUE, error,
                 Started(loads, l),
                 {Request("financial-overview", l.year)},
                 Event("retryClick"))
    /\ UNCHANGED <<navVars, selectedYear>>

\* fetchFinancialData's catch and finally
RetryFails(l, err) ==
    Settle(financialData, dailyData, FALSE,
           Str(ErrMessage(err, "Unknown error")),
           Settled(loads, l),
           [Event("retryFailed") EXCEPT !.failed = {"financial-overview"}])

\* the fetch() promise resolves: a non-OK status throws, otherwise json() starts
RetryResponse(l, status) ==
    /\ Mounted
    /\ BagIn(l, loads)
    /\ l.fn = "fetchFinancialData"
    /\ AwaitsFetch(l)
    /\ IF Ok(status)
       THEN Continue(Advanced(loads, l, [l EXCEPT !.resp = {<<"financial-overview", status>>}]),
                     Event("await"))
       ELSE RetryFails(l, Error("Failed to fetch financial data"))

\* the fetch() promise rejects
RetryReject(l, err) ==
    /\ Mounted
    /\ BagIn(l, loads)
    /\ l.fn = "fetchFinancialData"
    /\ AwaitsFetch(l)
    /\ RetryFails(l, err)

\* the json() promise resolves: setFinancialData(data), and loading ends
RetryJson(l) ==
    /\ Mounted
    /\ BagIn(l, loads)
    /\ l.fn = "fetchFinancialData"
    /\ AwaitsJson(l)
    /\ Settle(Payload("financial-overview", l.year), dailyData, FALSE, error,
              Settled(loads, l),
              Event("retryOk"))

\* the json() promise rejects
RetryJsonReject(l, err) ==
    /\ Mounted
    /\ BagIn(l, loads)
    /\ l.fn = "fetchFinancialData"
    /\ AwaitsJson(l)
    /\ RetryFails(l, err)

-----------------------------------------------------------------------------
(* The parent renders FinancialOverview with another selectedYear (component harness) *)

SelectYear(y) ==
    /\ Num(y) # selectedYear
    /\ selectedYear' = Num(y)
    /\ UNCHANGED navVars
    /\ IF Mounted
       THEN /\ (Num(y) # selectedYear => InFlight < MaxInFlight)
            /\ Render(<<selectedYear>>, Num(y), financialData, dailyData, loading, error,
                      loads, {}, Event("selectYear"))
       ELSE /\ UNCHANGED foVars
            /\ issued' = {}
            /\ lastEvent' = Event("selectYear")
            /\ UNCHANGED <<cell, grid>>

-----------------------------------------------------------------------------
(* FinancialOverview: the income and expense ratios of a heat-map cell *)

\* the amounts a daily record may carry: a JSON number, or no value
Amounts == {Undefined} \cup {Num(n) : n \in (0 - MaxAmount)..MaxAmount}

\* dayData.income || 0
OrZero(v) == IF Truthy(v) THEN v.num ELSE 0

\* x / y: the quotient as the fraction <<numerator, denominator>>, and the divisor used
Divide(x, y) == [value |-> <<x, y>>, divisors |-> {y}]

\* the literal 0: the fraction 0/1, no division
Zero == [value |-> <<0, 1>>, divisors |-> {}]

\* a ratio guarded by totalAmount >= 0
RatioOfNonNegativeGuard(amount, totalAmount) ==
    IF totalAmount >= 0 THEN Divide(amount, totalAmount) ELSE Zero

\* totalAmount > 0 ? amount / totalAmount : 0
RatioOf(amount, totalAmount) ==
    IF totalAmount > 0 THEN Divide(amount, totalAmount) ELSE Zero

\* the cell of a day whose record carries the given income and expense
CellOf(income, expense) ==
    LET incomeAmount == OrZero(income)
        expenseAmount == OrZero(expense)
        totalAmount == incomeAmount + expenseAmount
        incomeRatio == RatioOf(incomeAmount, totalAmount)
        expenseRatio == RatioOf(expenseAmount, totalAmount)
    IN [rendered |-> TRUE,
        income |-> income,
        expense |-> expense,
        totalAmount |-> totalAmount,
        hasIncome |-> incomeAmount > 0,
        hasExpense |-> expenseAmount > 0,
        incomeRatio |-> incomeRatio.value,
        expenseRatio |-> expenseRatio.value,
        divisors |-> incomeRatio.divisors \cup expenseRatio.divisors]

\* a day's record as delivered by the backend, its cell not yet computed
DayRecord(income, expense) == [rendered |-> FALSE, income |-> income, expense |-> expense]

\* the heat-map renders the cell of the day
RenderCell ==
    /\ ~cell.rendered
    /\ cell # NoCell
    /\ cell' = CellOf(cell.income, cell.expense)
    /\ UNCHANGED <<storage, currentPage, selectedYear, financialData, dailyData,
                   loading, error, loads, issued, lastEvent, grid>>

-----------------------------------------------------------------------------
(* FinancialOverview: the 53 x 7 heat-map grid of a year *)

\* Date arithmetic as ECMAScript defines it, in days since 1 January 1970 (local time)
InLeapYear(y) == (y % 4 = 0 /\ y % 100 # 0) \/ y % 400 = 0

DaysInYear(y) == IF InLeapYear(y) THEN 366 ELSE 365

DayFromYear(y) ==
    365 * (y - 1970) + ((y - 1969) \div 4) - ((y - 1901) \div 100) + ((y - 1601) \div 400)

\* the year a day falls in
YearFromDay(d) ==
    CHOOSE y \in (GridFirstYear - 2)..(GridLastYear + 3) :
        DayFromYear(y) <= d /\ d < DayFromYear(y + 1)

\* the lengths of the months 0..11 of a year
MonthLengths(y) ==
    <<31, IF InLeapYear(y) THEN 29 ELSE 28, 31, 30, 31, 30, 31, 31, 30, 31, 30, 31>>

\* the days of year y before its month m (0-based)
RECURSIVE DaysBeforeMonth(_, _)
DaysBeforeMonth(y, m) ==
    IF m = 0 THEN 0 ELSE DaysBeforeMonth(y, m - 1) + MonthLengths(y)[m]

\* new Date(year, month, date) with month in 0..11: the date may overflow either way
MakeDay(year, month, date) == DayFromYear(year) + DaysBeforeMonth(year, month) + date - 1

\* Date.prototype.getDay(): 0 = Sunday (1 January 1970 was a Thursday)
GetDay(d) == (d + 4) % 7

\* Date.prototype.getFullYear()
GetFullYear(d) == YearFromDay(d)

\* Date.prototype.getMonth(): 0-based
GetMonth(d) ==
    LET y == YearFromDay(d)
        n == d - DayFromYear(y)
    IN CHOOSE m \in 0..11 :
           DaysBeforeMonth(y, m) <= n /\ n < DaysBeforeMonth(y, m) + MonthLengths(y)[m + 1]

\* Date.prototype.getDate()
GetDate(d) ==
    LET y == YearFromDay(d)
    IN d - DayFromYear(y) - DaysBeforeMonth(y, GetMonth(d)) + 1

\* gridTemplateColumns: repeat(53, 1fr), gridTemplateRows: repeat(7, 1fr)
GridColumns == 53
GridRows == 7

\* Array.from({ length: 53 * 7 }, ...)
GridLength == GridColumns * GridRows

\* const dayOffset = weekIndex * 7 + dayOfWeek - startDayOfWeek
DayOffset(index, startDayOfWeek) ==
    LET dayOfWeek == index \div GridColumns
        weekIndex == index % GridColumns
    IN weekIndex * 7 + dayOfWeek - startDayOfWeek

\* the callback of Array.from for one index: the empty placeholder, or the cell of a date
GridCell(year, index) ==
    LET startDate == MakeDay(year, 0, 1)
        startDayOfWeek == GetDay(startDate)
        dayOffset == DayOffset(index, startDayOfWeek)
        currentDate == MakeDay(year, 0, 1 + dayOffset)
    IN IF GetFullYear(currentDate) # year \/ dayOffset < 0
       THEN [empty |-> TRUE]
       ELSE [empty |-> FALSE, month |-> GetMonth(currentDate), day |-> GetDate(currentDate)]

\* the grid of a year before its first cell is rendered
NewGrid(year) == [rendered |-> TRUE, year |-> year, cells |-> <<>>]

\* the next cell of the grid is rendered (Array.from calls back in index order)
RenderGridCell ==
    /\ grid.rendered
    /\ Len(grid.cells) < GridLength
    /\ grid' = [grid EXCEPT !.cells = Append(@, GridCell(grid.year, Len(grid.cells)))]
    /\ UNCHANGED <<storage, currentPage, selectedYear, financialData, dailyData,
                   loading, error, loads, issued, lastEvent, cell>>

-----------------------------------------------------------------------------
(* Specifications *)

\* the continuations of the awaiting invocations
LoadStep ==
    \/ \E l \in BagToSet(loads), e \in Endpoints, s \in Statuses : FetchDataResponse(l, e, s)
    \/ \E l \in BagToSet(loads), e \in Endpoints, err \in FetchErrors : FetchDataReject(l, e, err)
    \/ \E l \in BagToSet(loads), e \in Endpoints : FetchDataJson(l, e)
    \/ \E l \in BagToSet(loads), e \in Endpoints, err \in JsonErrors : FetchDataJsonReject(l, e, err)
    \/ \E l \in BagToSet(loads), s \in Statuses : RetryResponse(l, s)
    \/ \E l \in BagToSet(loads), err \in FetchErrors : RetryReject(l, err)
    \/ \E l \in BagToSet(loads) : RetryJson(l)
    \/ \E l \in BagToSet(loads), err \in JsonErrors : RetryJsonReject(l, err)

\* the application as wired: AnnualSummary renders <FinancialOverview /> without props
Next ==
    \/ \E deltaY \in WheelDeltas : Wheel(deltaY)
    \/ \E key \in Keys : KeyDown(key)
    \/ Reload
    \/ RetryClick
    \/ LoadStep

Spec == Init /\ [][Next]_vars

\* FinancialOverview under a parent that passes and changes selectedYear; the page is
\* changed by the wheel
NextYear ==
    \/ \E deltaY \in WheelDeltas : WheelTarget(currentPage, deltaY) # currentPage /\ Wheel(deltaY)
    \/ \E y \in Years : SelectYear(y)
    \/ RetryClick
    \/ LoadStep

InitYear == InitWith(Num(CurrentFullYear - 1), NoCell)

SpecYear == InitYear /\ [][NextYear]_vars

\* every request issued eventually settles, and the continuation awaiting it runs: the
\* continuations of the awaiting invocations are not postponed forever
Fairness == WF_vars(LoadStep)

SpecFair == Init /\ [][Next]_vars /\ Fairness

\* the heat-map cell computation on every daily record within the bounds
InitCell == \E income, expense \in Amounts : InitWith(Undefined, DayRecord(income, expense))

NextCell == RenderCell

SpecCell == InitCell /\ [][NextCell]_vars

\* the heat-map grid of every year within the bounds, for a component given that year
GridYears == GridFirstYear..GridLastYear

InitGrid == \E y \in GridYears : InitState(Num(y), NoCell, NewGrid(y))

NextGrid == RenderGridCell

SpecGrid == InitGrid /\ [][NextGrid]_vars

-----------------------------------------------------------------------------
(* Properties *)

FetchDataRequests(year) == {Request(e, TemplateString(year)) : e \in Endpoints}

HasFetchData(lds) == \E l \in BagToSet(lds) : l.fn = "fetchData"

\* the step mounted FinancialOverview anew
Remounts == currentPage' # currentPage \/ lastEvent'.kind = "reload"

\* C1: every load issues both requests in the step that starts it, before either is
\* awaited; financialData and dailyData are set only by the step in which the second
\* body of a load whose two responses were OK is parsed, both in that one step, and no
\* other step of a load changes either of them.
C1_PayloadsAppliedTogether ==
    [][ /\ (lastEvent'.started = 1 =>
               /\ FetchDataRequests(selectedYear') \subseteq issued'
               /\ BagIn(NewFetchData(selectedYear'), loads'))
        /\ (lastEvent'.kind = "loadOk" =>
               \E l \in BagToSet(loads) :
                   /\ l.fn = "fetchData"
                   /\ Responded(l) = Endpoints
                   /\ \A e \in Endpoints : Ok(StatusOf(l, e))
                   /\ financialData' = Payload("financial-overview", l.year)
                   /\ dailyData' = Payload("daily-data", l.year))
        /\ (lastEvent'.kind \in {"await", "loadFailed"} =>
               UNCHANGED <<financialData, dailyData>>)
      ]_vars

\* a load for a year selected after mount has applied both of its payloads
C1_Witness ==
    /\ lastEvent.kind = "loadOk"
    /\ selectedYear = Num(CurrentFullYear - 2)
    /\ financialData = Payload("financial-overview", TemplateString(selectedYear))
    /\ dailyData = Payload("daily-data", TemplateString(selectedYear))

\* C2: whenever a load has just settled with a failure (a rejected request, a non-OK
\* status, an unparsable body), loading is false and the error view is rendered.
C2_FailureShowsErrorView ==
    lastEvent.kind = "loadFailed" => (~loading /\ View = "error")

\* C3: whenever a retry has just settled successfully, error is not set and the
\* overview is rendered.
C3_RetryRecovers ==
    lastEvent.kind = "retryOk" => (error = Null /\ View = "overview")

\* C4: a step starts a load (exactly one, issuing exactly the two requests for the
\* selected year) if and only if it mounts FinancialOverview or changes selectedYear
\* of the mounted component; every other step, the settling of a load or retry and
\* its re-render included, starts none.
C4_OneLoadPerSelection ==
    [][ LET selection == Mounted' /\ (Remounts \/ selectedYear' # selectedYear)
        IN IF selection
           THEN /\ lastEvent'.started = 1
                /\ issued' = FetchDataRequests(selectedYear')
           ELSE /\ lastEvent'.started = 0
                /\ \/ issued' = {}
                   \/ lastEvent'.kind = "retryClick" /\ Cardinality(issued') = 1
      ]_vars

\* a load settled on the component whose year was changed, and nothing was started
C4_Witness ==
    /\ lastEvent.kind \in {"loadOk", "loadFailed"}
    /\ lastEvent.started = 0
    /\ issued = {}
    /\ Mounted
    /\ selectedYear = Num(CurrentFullYear - 2)

\* C5: every request issued is a GET of one of the two endpoints for the currently
\* selected year.
C5_RequestsForSelectedYear ==
    \A r \in issued :
        /\ r.method = "GET"
        /\ r.url \in {Url(e, TemplateString(selectedYear)) : e \in Endpoints}

\* C6: from the start of a load until it settles with a failure, that step included,
\* financialData and dailyData keep their values: nothing of a failed load is applied.
C6_FailedLoadAppliesNothing ==
    [][ (HasFetchData(loads) /\ ~Remounts /\ lastEvent'.kind # "loadOk")
            => UNCHANGED <<financialData, dailyData>>
      ]_vars

\* a load settled after the financial response was not OK and the daily one was
C6_Witness ==
    /\ lastEvent.kind = "loadFailed"
    /\ lastEvent.failed = {"financial-overview"}
    /\ error = Str(HttpErrorMessage(500, 200))
    /\ financialData = Null
    /\ dailyData = Null

\* C7: currentPage is an index of the page list.
C7_PageInRange == currentPage \in 0..LastPage

\* a wheel-down on the last page that moved nowhere
C7_Witness ==
    /\ lastEvent.kind = "wheel"
    /\ lastEvent.deltaY > 0
    /\ lastEvent.started = 0
    /\ currentPage = LastPage

\* C8: the page a reload would restore from sessionStorage is the page shown.
C8_StoredPageIsCurrentPage == InitialPage(storage) = currentPage

\* a reload restored the financial-overview page
C8_Witness ==
    /\ lastEvent.kind = "reload"
    /\ currentPage = 1
    /\ GetItem(storage, PageKey) = Str(<<"1">>)

\* C9: a wheel-down on the welcome page shows the financial overview, a wheel-up on
\* the financial overview shows the welcome page, a wheel event moves by at most one
\* page, and wheel-down on the last page and wheel-up on the first change neither
\* currentPage nor sessionStorage.
C9_WheelMovesOnePage ==
    [][ lastEvent'.kind = "wheel" =>
          LET deltaY == lastEvent'.deltaY
          IN /\ (deltaY > 0 /\ pages[currentPage + 1] = "welcome"
                    => pages[currentPage' + 1] = "financial-overview")
             /\ (deltaY < 0 /\ pages[currentPage + 1] = "financial-overview"
                    => pages[currentPage' + 1] = "welcome")
             /\ currentPage' - currentPage \in {-1, 0, 1}
             /\ (deltaY > 0 /\ currentPage = LastPage => UNCHANGED <<currentPage, storage>>)
             /\ (deltaY < 0 /\ currentPage = 0 => UNCHANGED <<currentPage, storage>>)
      ]_vars

\* a wheel-down moved from the welcome page to the financial overview
C9_Witness ==
    /\ lastEvent.kind = "wheel"
    /\ lastEvent.deltaY > 0
    /\ lastEvent.started = 1
    /\ pages[currentPage + 1] = "financial-overview"

\* a fraction <<n, d>> lies in [0, 1]
InUnitInterval(r) == r[2] > 0 /\ 0 <= r[1] /\ r[1] <= r[2]

\* two fractions add up to 1
SumToOne(a, b) == a[2] > 0 /\ b[2] > 0 /\ a[1] * b[2] + b[1] * a[2] = a[2] * b[2]

\* a fraction is 0
IsZero(r) == r[2] # 0 /\ r[1] = 0

\* what the claim says of a computed cell whose amounts add up to more than 0, and to 0
RatiosFillCell(c) ==
    /\ c.totalAmount > 0 =>
          /\ InUnitInterval(c.incomeRatio)
          /\ InUnitInterval(c.expenseRatio)
          /\ SumToOne(c.incomeRatio, c.expenseRatio)
    /\ c.totalAmount = 0 => IsZero(c.incomeRatio) /\ IsZero(c.expenseRatio)
    /\ 0 \notin c.divisors

\* C10 (as stated): for every daily record, whatever its amounts, when income +
\* expense > 0 both ratios lie in [0, 1] and sum to 1, when it is 0 both ratios are 0,
\* and no division by zero is performed.
C10_RatiosFillCellAnyAmounts == cell.rendered => RatiosFillCell(cell)

\* C10 (amended): the same for every daily record whose income and expense are not
\* negative; for every record, no ratio is computed by a division by zero, and both
\* ratios are 0 unless income + expense > 0.
C10_RatiosFillCellNonNegative ==
    cell.rendered =>
        /\ (OrZero(cell.income) >= 0 /\ OrZero(cell.expense) >= 0) => RatiosFillCell(cell)
        /\ 0 \notin cell.divisors
        /\ cell.totalAmount <= 0 => IsZero(cell.incomeRatio) /\ IsZero(cell.expenseRatio)

\* a cell with both bars: income 1 and expense 3 give the ratios 1/4 and 3/4
C10_Witness ==
    /\ cell.rendered
    /\ cell.income = Num(1)
    /\ cell.expense = Num(3)
    /\ cell.hasIncome
    /\ cell.hasExpense
    /\ cell.incomeRatio = <<1, 4>>
    /\ cell.expenseRatio = <<3, 4>>

\* the keys sessionStorage holds
StoredKeys(st) == {p[1] : p \in st}

\* C11 (as stated): no operation (navigation by wheel or key, load, retry) writes to
\* browser storage.
C11_NoStorageWrite == [][storage' = storage]_vars

\* C11 (amended): the only persisted state is the index of the page shown, under the
\* sessionStorage key 'yimu-current-page': it is written by exactly the wheel and key
\* navigation steps that change the page, as the decimal text of the new page; loads,
\* retries and navigation that changes no page write nothing.
C11_OnlyPageIndexPersisted ==
    [][ /\ StoredKeys(storage') \subseteq {PageKey}
        /\ IF lastEvent'.kind \in {"wheel", "keydown"} /\ lastEvent'.moved
           THEN storage' = {<<PageKey, NumberToString(currentPage')>>}
           ELSE storage' = storage
      ]_vars

\* a retry settled on the page the wheel moved to: the stored page is all that is stored
C11_Witness ==
    /\ lastEvent.kind \in {"retryOk", "retryFailed"}
    /\ storage = {<<PageKey, <<"1">>>>}

\* the payload was returned for the given year
ForYear(data, year) == data # Null /\ data.year = TemplateString(year)

\* C12: while FinancialOverview is shown, financialData and dailyData are each null or
\* the payload of the currently selected year: once the load for a newly selected year
\* has started, nothing of the previous year is held (or displayed).
C12_PreviousYearDataDiscarded ==
    Mounted => \A data \in {financialData, dailyData} :
                   data = Null \/ ForYear(data, selectedYear)

\* C13: a step that returns to the financial-overview page right after a step that
\* left it for the welcome page, the selected year unchanged, issues no request.
C13_NoRefetchOnReturn ==
    [][ ( /\ lastEvent.moved
          /\ pages[currentPage + 1] = "welcome"
          /\ lastEvent'.moved
          /\ pages[currentPage' + 1] = "financial-overview"
          /\ selectedYear' = selectedYear )
        => issued' = {}
      ]_vars

\* C14: a keydown of ArrowLeft or ArrowRight while the financial-overview page is
\* shown changes the selected year and starts a load.
C14_ArrowKeysSelectYear ==
    [][ ( /\ Mounted
          /\ lastEvent'.kind = "keydown"
          /\ lastEvent'.key \in {"ArrowLeft", "ArrowRight"} )
        => (selectedYear' # selectedYear /\ lastEvent'.started = 1)
      ]_vars

Views == {"spinner", "error", "no-data", "overview"}

\* C15: while FinancialOverview is shown, exactly one of the four views is rendered:
\* the spinner iff loading; otherwise the error view iff error is set (not null);
\* otherwise the 'no data' view iff financialData is null; otherwise the overview.
C15_ViewByPrecedence ==
    Mounted =>
        /\ View \in Views
        /\ View = "spinner" <=> loading
        /\ View = "error" <=> (~loading /\ error # Null)
        /\ View = "no-data" <=> (~loading /\ error = Null /\ financialData = Null)
        /\ View = "overview" <=> (~loading /\ error = Null /\ financialData # Null)

\* C16: when the last in-flight load has just settled successfully, no load having
\* failed, financialData and dailyData are the payloads of the most recently selected
\* year, whatever the order in which overlapping loads were answered.
C16_LatestSelectionWins ==
    (Mounted /\ InFlight = 0 /\ lastEvent.kind = "loadOk" /\ ~lastEvent.cleared)
        => (ForYear(financialData, selectedYear) /\ ForYear(dailyData, selectedYear))

\* C17: while FinancialOverview is shown and a load or retry is still in flight,
\* loading is true and the spinner is the view rendered.
C17_LoadingWhileInFlight ==
    (Mounted /\ InFlight > 0) => (loading /\ View = "spinner")

\* C18: when every issued request eventually settles, a load or retry in flight on the
\* page shown, and the spinner shown, lead to loading = false, unless the page is left
\* or the document reloaded (the component is then another one): the spinner is not
\* shown forever.
C18_LoadingEnds ==
    (Mounted /\ (loading \/ InFlight > 0))
        ~> (~loading \/ ~Mounted \/ lastEvent.kind = "reload")

\* a retry settled with a failure and ended loading
C18_Witness ==
    /\ Mounted
    /\ lastEvent.kind = "retryFailed"
    /\ InFlight = 0
    /\ ~loading

\* C19: when a load triggered by year selection has just succeeded, error is null and
\* the error view is not rendered, whatever error an earlier failed load left.
C19_SuccessClearsError ==
    lastEvent.kind = "loadOk" => (error = Null /\ View # "error")

\* the load for a year selected after mount succeeded and replaced an earlier error
C19_Witness ==
    /\ lastEvent.kind = "loadOk"
    /\ lastEvent.cleared
    /\ error = Null
    /\ ForYear(financialData, Num(CurrentFullYear - 2))
    /\ selectedYear = Num(CurrentFullYear - 2)

\* C20: financialData and dailyData are both null, or both payloads returned for one
\* and the same year.
C20_DataOfOneYear ==
    \/ financialData = Null /\ dailyData = Null
    \/ /\ financialData # Null
       /\ dailyData # Null
       /\ financialData.year = dailyData.year

\* the calendar days <<month, day>> of a year, month 0-based
CalendarDays(y) == {<<m, d>> \in (0..11) \X (1..31) : d <= MonthLengths(y)[m + 1]}

\* the cells (by index) of a rendered grid that show the given calendar day
CellsOf(g, md) ==
    {i \in 1..Len(g.cells) :
        ~g.cells[i].empty /\ g.cells[i].month = md[1] /\ g.cells[i].day = md[2]}

\* the cells (by index) that correspond to no day of the year: before 1 January, or
\* after 31 December
OutsideYear(g) ==
    {i \in 1..Len(g.cells) :
        LET dayOffset == DayOffset(i - 1, GetDay(MakeDay(g.year, 0, 1)))
        IN dayOffset < 0 \/ dayOffset >= DaysInYear(g.year)}

GridComplete == grid.rendered /\ Len(grid.cells) = GridLength

\* C21: in the rendered grid of every year, each calendar day of the year is shown by
\* exactly one cell, and every cell that corresponds to no day of the year is an empty
\* placeholder.
C21_EveryDayHasOneCell ==
    GridComplete =>
        /\ \A md \in CalendarDays(grid.year) : Cardinality(CellsOf(grid, md)) = 1
        /\ \A i \in OutsideYear(grid) : grid.cells[i].empty

====
